---- MODULE Spec2Model ----
(***************************************************************************)
(* Model of the AstroBox-NG module provider: the CDN resolver              *)
(* (src/src/cdn.rs) and the official index provider                        *)
(* (src/src/community/officialv2.rs): refresh, get_page and download.      *)
(*                                                                         *)
(* One module holds several machines over the same variables: SpecCdn      *)
(* (convert_url), Spec (refresh), SpecPage (refresh and get_page), SpecDet *)
(* (repeated get_page calls), SpecPar (get_page on several threads) and    *)
(* SpecDl (download).  Each leaves the variables of the others alone.      *)
(*                                                                         *)
(* Strings are modelled as sequences of tokens.  A URL is a sequence over  *)
(* UrlTokens, where each token stands for a piece of text that the         *)
(* resolver matches as a whole ("https://", a host with its trailing       *)
(* slash) or for any other text ("p").  A name, a tag or a search keyword  *)
(* is a sequence of code points.                                           *)
(***************************************************************************)
EXTENDS Integers, Sequences, FiniteSets, TLC

\* ------------------------------------------------------------------ bounds
\* longest URL handed to convert_url
MaxUrlLen == 4
\* most rows in one index feed (index_v2.csv)
MaxFeed == 2
\* cap on the running placeholder counter (a u32 in the code)
MaxPlaceholder == 2
\* largest page number passed to get_page
MaxPage == 1
\* largest limit passed to get_page
MaxLimit == 2

\* ------------------------------------------------------- sequence helpers
\* str::starts_with
StartsWith(s, pre) ==
    /\ Len(pre) <= Len(s)
    /\ SubSeq(s, 1, Len(pre)) = pre

\* str::contains: pat occurs somewhere in s
Contains(s, pat) ==
    \E i \in 1..(Len(s) + 1) :
        /\ i + Len(pat) - 1 <= Len(s)
        /\ SubSeq(s, i, i + Len(pat) - 1) = pat

\* str::replace: every non-overlapping match of from, left to right
RECURSIVE Replace(_, _, _)
Replace(s, from, to) ==
    IF s = <<>> THEN <<>>
    ELSE IF StartsWith(s, from)
         THEN to \o Replace(SubSeq(s, Len(from) + 1, Len(s)), from, to)
         ELSE <<Head(s)>> \o Replace(Tail(s), from, to)

\* str::strip_prefix(pre).unwrap_or(s)
StripPrefixOr(s, pre) ==
    IF StartsWith(s, pre) THEN SubSeq(s, Len(pre) + 1, Len(s)) ELSE s

\* all sequences over S of length at most n
SeqsUpTo(S, n) == UNION {[1..k -> S] : k \in 0..n}

\* Option<T>
None == [some |-> FALSE, v |-> <<>>]
Some(x) == [some |-> TRUE, v |-> x]

\* Vec::reverse
Reverse(s) == [i \in 1..Len(s) |-> s[Len(s) + 1 - i]]

\* every ordering SliceRandom::shuffle can leave the slice in
Shuffles(s) == {[i \in 1..Len(s) |-> s[p[i]]] : p \in Permutations(1..Len(s))}

\* String::cmp(a, b) = Less: bytewise lexicographic order
RECURSIVE StrLess(_, _)
StrLess(a, b) ==
    IF b = <<>> THEN FALSE
    ELSE IF a = <<>> THEN TRUE
    ELSE IF Head(a) # Head(b) THEN Head(a) < Head(b)
    ELSE StrLess(Tail(a), Tail(b))

\* a chunking that never cuts
ChunksOnePage(s, n) == IF s = <<>> THEN <<>> ELSE <<s>>

\* slice::chunks(n) for n >= 1 (chunks(0) panics, see GetPageResult)
RECURSIVE Chunks(_, _)
Chunks(s, n) ==
    IF s = <<>> THEN <<>>
    ELSE IF Len(s) <= n THEN <<s>>
    ELSE <<SubSeq(s, 1, n)>> \o Chunks(SubSeq(s, n + 1, Len(s)), n)

\* ------------------------------------------------------------ CDN resolver
GitHubCdn ==
    {"Raw", "AstroBoxProMirror", "AstroBoxProMirrorWaterFlames", "GhFast", "GhProxy"}

Https == <<"https://">>
\* "https://raw.githubusercontent.com/"
RawPrefix == <<"https://", "raw.githubusercontent.com/">>
\* "https://api.astrobox.online/ghoss/"
ProMirrorPrefix == <<"https://", "api.astrobox.online/ghoss/">>
\* "https://api-astrobox.waterflames.cn/ghoss/"
WaterFlamesPrefix == <<"https://", "api-astrobox.waterflames.cn/ghoss/">>
\* "https://ghfast.top/"
GhFastBase == <<"https://", "ghfast.top/">>
\* "https://gh-proxy.com/"
GhProxyBase == <<"https://", "gh-proxy.com/">>

\* the early return of convert_url: the URL is left alone unless this holds
\* (the code tests `contains`, not `starts_with`)
MentionsRaw(url) == Contains(url, RawPrefix)

convert_url(self, url) ==
    IF ~MentionsRaw(url) THEN url
    ELSE CASE self = "Raw" -> url
           [] self = "AstroBoxProMirror" -> Replace(url, RawPrefix, ProMirrorPrefix)
           [] self = "AstroBoxProMirrorWaterFlames" ->
                  Replace(url, RawPrefix, WaterFlamesPrefix)
           [] self = "GhFast" -> GhFastBase \o StripPrefixOr(url, Https)
           [] self = "GhProxy" -> GhProxyBase \o StripPrefixOr(url, Https)

\* ---------------------------------------------------- index entries (IndexV2)
\* An id is a pair <<text, n>>: <<"w", 1>> is a real id, PlaceholderId the
\* sentinel "<placeholder>" and <<"placeholder_", n>> the text
\* format!("placeholder_{}", n).
PlaceholderId == <<"<placeholder>", 0>>
\* an id that ignores the running counter
SynthIdFixed(n) == <<"placeholder_", 0>>

SynthId(n) == <<"placeholder_", n>>

\* split_semicolon: s.split(';').map(|x| x.trim().to_string()).collect().
\* Text is a sequence of code points; 59 is ';' and 32 a space.  The empty
\* text splits into one empty piece.
RECURSIVE SplitOn(_, _)
SplitOn(s, sep) ==
    IF \A i \in 1..Len(s) : s[i] # sep THEN <<s>>
    ELSE LET i == CHOOSE k \in 1..Len(s) :
                      s[k] = sep /\ \A j \in 1..(k - 1) : s[j] # sep
         IN <<SubSeq(s, 1, i - 1)>> \o SplitOn(SubSeq(s, i + 1, Len(s)), sep)

RECURSIVE Trim(_)
Trim(s) ==
    IF s = <<>> THEN s
    ELSE IF Head(s) = 32 THEN Trim(Tail(s))
    ELSE IF s[Len(s)] = 32 THEN Trim(SubSeq(s, 1, Len(s) - 1))
    ELSE s

split_semicolon(s) ==
    LET pieces == SplitOn(s, 59) IN [i \in 1..Len(pieces) |-> Trim(pieces[i])]

\* device names "d1", "d2", "d3"
D1 == <<100, 49>>
D2 == <<100, 50>>
D3 == <<100, 51>>

\* rows of index_v2.csv, with the devices and tags fields as they stand in
\* the file; valid = FALSE is a row csv cannot deserialize
RowW1 == [valid |-> TRUE, id |-> <<"w", 1>>, name |-> <<98>>,
          devices |-> D1 \o <<59>> \o D2, tags |-> <<116>>]
RowW2 == [valid |-> TRUE, id |-> <<"w", 2>>, name |-> <<97>>,
          devices |-> D3, tags |-> <<122>>]
RowPh == [valid |-> TRUE, id |-> PlaceholderId, name |-> <<97, 97>>,
          devices |-> D1, tags |-> <<116, 97>>]
RowBad == [valid |-> FALSE, id |-> <<"w", 0>>, name |-> <<>>,
           devices |-> <<>>, tags |-> <<>>]

\* the IndexV2 a valid row deserializes to, with the id it is stored under
Entry(row, id) ==
    [id |-> id, name |-> row.name, devices |-> split_semicolon(row.devices),
     tags |-> split_semicolon(row.tags)]

\* refresh, the csv loop: rows that fail to deserialize are skipped, a row
\* with the sentinel id takes the running counter n and advances it.
\* Returns the list and the counter after the loop.
RECURSIVE IngestFrom(_, _)
IngestFrom(feed, n) ==
    IF feed = <<>> THEN [list |-> <<>>, n |-> n]
    ELSE LET row == Head(feed) IN
         IF ~row.valid THEN IngestFrom(Tail(feed), n)
         ELSE IF row.id = PlaceholderId
              THEN LET rest == IngestFrom(Tail(feed), n + 1) IN
                   [list |-> <<Entry(row, SynthId(n))>> \o rest.list, n |-> rest.n]
              ELSE LET rest == IngestFrom(Tail(feed), n) IN
                   [list |-> <<Entry(row, row.id)>> \o rest.list, n |-> rest.n]

\* ------------------------------------------------------------- split_index
SortRuleV2 == {"Random", "Name", "Time"}

\* Vec::sort_by(|a, b| a.name.cmp(&b.name)): a stable sort
RECURSIVE InsertByName(_, _)
InsertByName(sorted, e) ==
    IF sorted = <<>> THEN <<e>>
    ELSE IF StrLess(e.name, Head(sorted).name)
         THEN <<e>> \o sorted
         ELSE <<Head(sorted)>> \o InsertByName(Tail(sorted), e)

RECURSIVE SortByName(_)
SortByName(s) ==
    IF s = <<>> THEN <<>>
    ELSE InsertByName(SortByName(SubSeq(s, 1, Len(s) - 1)), s[Len(s)])

\* a split_index that shuffles for the Name rule too
SortedIndexNameShuffled(idx, sort) ==
    CASE sort = "Random" -> Shuffles(idx)
      [] sort = "Name" -> Shuffles(idx)
      [] sort = "Time" -> {Reverse(idx)}

\* the orderings `match sort` can produce from the index
SortedIndex(idx, sort) ==
    CASE sort = "Random" -> Shuffles(idx)
      [] sort = "Name" -> {SortByName(idx)}
      [] sort = "Time" -> {Reverse(idx)}

\* the values split_index(limit, sort) can store in splited_index, limit >= 1
SplitResults(idx, limit, sort) ==
    {Chunks(sorted, limit) : sorted \in SortedIndex(idx, sort)}

\* get_total_items: self.index.load().len()
get_total_items(idx) == Len(idx)

\* the limit refresh passes to split_index
RefreshLimit == 114514

\* usize::MAX: 2^64 - 1, or 2^32 - 1 on a 32-bit target.  The model puts
\* 2^31 - 1 in its place.  What the model keeps of it: it is odd, and the
\* complement of every cached page size the model reaches is larger than
\* every limit the model passes.  (On a 32-bit target the one limit
\* 2^32 - 1 - cached equals the complement; it is outside the modelled
\* limits.)
UsizeMax == 2147483647

\* `!x` on a usize is the bitwise complement
BitNot(x) == UsizeMax - x

\* the test `cached != limit`, without the complement
NeedsSplitIfLimitDiffers(cached, limit) == cached # limit

\* get_page, the test before split_index:
\*     !(*(self.splited_limit.load().clone())) != limit as usize
\* The unary `!` binds tighter than `!=`, so the complement of the cached
\* page size is compared with the limit.
NeedsSplit(cached, limit) == BitNot(cached) # limit

\* ------------------------------------------------------------------- state
VARIABLES
    cu_url,             \* convert_url: the argument url
    cu_cdn,             \* convert_url: self
    cu_out,             \* convert_url: the returned string
    cu_pc,              \* "call" before convert_url has run, "ret" after
    \* OfficialV2Provider, the fields refresh and get_page use
    state,              \* ProviderState
    cdn,                \* GitHubCdn
    index,              \* Vec<IndexV2>
    splited_index,      \* Vec<Vec<IndexV2>>
    splited_limit,      \* usize
    splited_sort,       \* the sort rule split_index built splited_index with
    device_map,         \* DeviceMapV2 (0 is DeviceMapV2::default())
    explore,            \* serde_json::Value (0 is Value::Null)
    placeholderIndex,   \* u32
    rpc,                \* where the refresh task is: "idle", or the response it awaits
    rreq,               \* the URL of the request the refresh task awaits
    rlog,               \* what the latest refresh call stored and returned
    call,               \* the get_page call that has just returned, NoCall otherwise
    memo,               \* an earlier get_page call kept for comparison
    gp,                 \* per thread: the get_page call it runs and where it is
    dir,                \* the item directory: path -> file (0: no such file)
    inode,              \* file -> content
    dl,                 \* per download call: where it is, its paths and handle
    mf,                 \* a download up to its entry: manifest requests, selection
    csvin,              \* an index feed and what the csv loop of refresh made of it
    reg,                \* COMMUNITY_PROVIDERS: the registered providers, in order
    rt,                 \* per thread: the registry call it runs and its result
    pg,                 \* a download with a progress callback: transfer, emissions
    lg,                 \* a legacy manifest and its conversion
    rcfg                \* the cfg of the latest refresh and the URLs it requested

cdnVars == <<cu_url, cu_cdn, cu_out, cu_pc>>
provVars == <<state, cdn, index, splited_index, splited_limit, splited_sort,
              device_map, explore, placeholderIndex, rpc, rreq>>
obsVars == <<rlog, call, memo>>
parVars == <<gp>>
dlVars == <<dir, inode, dl>>
extVars == <<mf, csvin, reg, rt, pg, lg, rcfg>>

\* what a specification of the provider's own calls leaves alone
restVars == <<cdnVars, parVars, dlVars, extVars>>

vars == <<cdnVars, provVars, obsVars, parVars, dlVars, extVars>>

\* ------------------------------------------------- provider: construction
Updating == [tag |-> "Updating", reason |-> <<"none", "none">>]
Ready == [tag |-> "Ready", reason |-> <<"none", "none">>]
Failed(err) == [tag |-> "Failed", reason |-> err]

NoErr == <<"none", "none">>
NoRefresh == [ret |-> "none", err |-> NoErr, stored |-> {},
              list |-> <<>>, map |-> 0, value |-> 0]

NoSearch == [filter |-> None, category |-> None]
NoCall == [page |-> 0, limit |-> 0, sort |-> "Random", search |-> NoSearch,
           outcome |-> "none", ret |-> <<>>, cdn |-> "Raw",
           found |-> "none"]

\* OfficialV2Provider::new(cdn, app_handle)
ProviderNew(c) ==
    /\ cdn = c
    /\ index = <<>>
    /\ splited_index = <<>>
    /\ splited_limit = 0
    /\ splited_sort = "none"
    /\ device_map = 0
    /\ explore = 0
    /\ state = Updating
    /\ placeholderIndex = 0
    /\ rpc = "idle"
    /\ rreq = <<>>

\* OfficialV2Provider::set_cdn
set_cdn(c) ==
    /\ cdn' = c
    /\ UNCHANGED <<state, index, splited_index, splited_limit, splited_sort,
                   device_map, explore, placeholderIndex, rpc, rreq>>

\* ------------------------------------------------------ provider: refresh
\* the three fixed locations under
\* https://raw.githubusercontent.com/AstralSightStudios/AstroBox-Repo/refs/heads/main/
IndexUrl == RawPrefix \o <<"index_v2.csv">>
DevicesUrl == RawPrefix \o <<"devices_v2.json">>
ExploreUrl == RawPrefix \o <<"explore_v2.json">>

\* The config text.  It is deserialized as HashMap<String, GitHubCdn>: the
\* parse succeeds only if every value of the object names a variant, and a
\* failed parse leaves the empty map.  cdn is the "cdn" field ("absent",
\* "unknown" for a value that names no variant); other is one more field
\* ("absent", "variant" for a value that names a variant, "text" for any
\* other value).
Cfgs == [cdn : GitHubCdn \cup {"absent", "unknown"}, other : {"absent", "variant", "text"}]

CfgCdn(cfg) ==
    IF cfg.cdn \in GitHubCdn /\ cfg.other # "text" THEN cfg.cdn ELSE "Raw"

\* a refresh that does not reset the state when it starts
StateOnBeginStale == state

\* a refresh that reports Ready from its start
StateOnBeginReady == Ready

\* the state refresh stores first (line 240)
StateOnBegin == Updating

\* the state refresh stores last (line 281)
StateOnSuccess == Ready

\* lines 240-250: up to the await of the index request.  The caller keeps
\* refresh calls on one provider from overlapping.
RefreshBegin(cfg) ==
    /\ rpc = "idle"
    /\ state' = StateOnBegin
    /\ cdn' = CfgCdn(cfg)
    /\ rreq' = convert_url(CfgCdn(cfg), IndexUrl)
    /\ rpc' = "index"
    /\ UNCHANGED <<index, splited_index, splited_limit, splited_sort, device_map, explore,
                   placeholderIndex>>

\* a failing refresh that puts the device map back to its default
RefreshErrResets(stage) ==
    /\ rpc = stage
    /\ rpc' = "idle"
    /\ rreq' = <<>>
    /\ device_map' = 0
    /\ UNCHANGED <<state, cdn, index, splited_index, splited_limit, splited_sort,
                   explore, placeholderIndex>>

\* a `?` of refresh returns the error of the request awaited at `stage`:
\* send() fails, error_for_status() sees a non-success status, or the body
\* cannot be read or (device map, explore) parsed
RefreshErr(stage) ==
    /\ rpc = stage
    /\ rpc' = "idle"
    /\ rreq' = <<>>
    /\ UNCHANGED <<state, cdn, index, splited_index, splited_limit, splited_sort,
                   device_map, explore, placeholderIndex>>

\* lines 250-271: the index body, up to the await of the device map request
RefreshIndexOk(feed) ==
    /\ rpc = "index"
    /\ LET ing == IngestFrom(feed, placeholderIndex) IN
        /\ ing.n <= MaxPlaceholder
        /\ index' = ing.list
        /\ placeholderIndex' = ing.n
        /\ splited_index' \in SplitResults(ing.list, RefreshLimit, "Random")
    /\ splited_limit' = RefreshLimit
    /\ splited_sort' = "Random"
    /\ rreq' = convert_url(cdn, DevicesUrl)
    /\ rpc' = "devmap"
    /\ UNCHANGED <<state, cdn, device_map, explore>>

\* lines 271-277: the device map, up to the await of the explore request
RefreshDevmapOk(map) ==
    /\ rpc = "devmap"
    /\ device_map' = map
    /\ rreq' = convert_url(cdn, ExploreUrl)
    /\ rpc' = "explore"
    /\ UNCHANGED <<state, cdn, index, splited_index, splited_limit, splited_sort, explore,
                   placeholderIndex>>

\* lines 277-283: the explore payload, up to Ok(())
RefreshExploreOk(value) ==
    /\ rpc = "explore"
    /\ explore' = value
    /\ state' = StateOnSuccess
    /\ rreq' = <<>>
    /\ rpc' = "idle"
    /\ UNCHANGED <<cdn, index, splited_index, splited_limit, splited_sort, device_map,
                   placeholderIndex>>

\* ----------------------------------------------------- provider: get_page
\* build_repo_raw_url(owner, name, commit_hash)
RepoRawUrl == RawPrefix \o <<"owner/name/hash">>

\* build_repo_cdn_url_by_index_item
RepoCdnUrl(c) == convert_url(c, RepoRawUrl)

\* the ManifestItemV2 get_page builds from an index entry (preview is [cover])
ManifestItem(e, c) ==
    [id |-> e.id, name |-> e.name,
     icon |-> RepoCdnUrl(c) \o <<"/", "icon">>,
     cover |-> RepoCdnUrl(c) \o <<"/", "cover">>]

\* the two `retain` calls
KeepsCategoryAll(e, categories) ==
    \A i \in 1..Len(e.devices) : \E j \in 1..Len(categories) : e.devices[i] = categories[j]

KeepsCategory(e, categories) ==
    \E i \in 1..Len(e.devices) : \E j \in 1..Len(categories) : e.devices[i] = categories[j]

KeepsKeyword(e, keyword) ==
    \/ Contains(e.name, keyword)
    \/ \E i \in 1..Len(e.tags) : Contains(e.tags[i], keyword)

Retained(page, search) ==
    LET Keep(e) == /\ search.category.some => KeepsCategory(e, search.category.v)
                   /\ search.filter.some => KeepsKeyword(e, search.filter.v)
    IN SelectSeq(page, Keep)

\* line 296: the page-range test
OutOfRange(pages, page) == Len(pages) <= page

\* lines 300-343 on the loaded pages: the outcome and the returned list.
\* `splited_index[page]` panics when the page is not there.
PageRead(pages, page, search, c) ==
    IF page + 1 > Len(pages) THEN [outcome |-> "panic", ret |-> <<>>]
    ELSE LET kept == Retained(pages[page + 1], search) IN
         [outcome |-> "Ok", ret |-> [i \in 1..Len(kept) |-> ManifestItem(kept[i], c)]]

\* lines 296-343 on one value of splited_index
PageResult(pages, page, search, c) ==
    IF OutOfRange(pages, page) THEN [outcome |-> "Ok", ret |-> <<>>]
    ELSE PageRead(pages, page, search, c)

SearchConfigs ==
    {NoSearch,
     [filter |-> None, category |-> Some(<<D2>>)],
     [filter |-> Some(<<97>>), category |-> None]}

\* what a call with this limit and sort finds in the paginated cache
Found(limit, sort) ==
    IF splited_limit # limit THEN "other limit"
    ELSE IF splited_sort # sort THEN "other sort"
    ELSE "same"

CallOf(page, limit, sort, search, res) ==
    [page |-> page, limit |-> limit, sort |-> sort, search |-> search,
     outcome |-> res.outcome, ret |-> res.ret, cdn |-> cdn,
     found |-> Found(limit, sort)]

\* get_page: it has no await, so a call that is not run in parallel with
\* another one is one step.  chunks(0) panics before anything is stored.
GetPage(pages, limits, sorts, searches) ==
    \E limit \in limits, sort \in sorts :
        IF NeedsSplit(splited_limit, limit)
        THEN IF limit = 0
             THEN /\ \E page \in pages, search \in searches :
                        call' = CallOf(page, limit, sort, search,
                                       [outcome |-> "panic", ret |-> <<>>])
                  /\ UNCHANGED provVars
             ELSE \E split \in SplitResults(index, limit, sort) :
                  /\ splited_index' = split
                  /\ splited_limit' = limit
                  /\ splited_sort' = sort
                  /\ \E page \in pages, search \in searches :
                        call' = CallOf(page, limit, sort, search,
                                       PageResult(split, page, search, cdn))
                  /\ UNCHANGED <<state, cdn, index, device_map, explore,
                                 placeholderIndex, rpc, rreq>>
        ELSE /\ \E page \in pages, search \in searches :
                   call' = CallOf(page, limit, sort, search,
                                  PageResult(splited_index, page, search, cdn))
             /\ UNCHANGED provVars

\* ------------------------------------------- convert_url as a state machine
UrlTokens ==
    {"https://", "raw.githubusercontent.com/", "ghfast.top/",
     "api.astrobox.online/ghoss/", "p"}

Urls == SeqsUpTo(UrlTokens, MaxUrlLen)

CdnIdle ==
    /\ cu_url = <<>>
    /\ cu_cdn = "Raw"
    /\ cu_out = <<>>
    /\ cu_pc = "call"

\* no thread runs get_page
ParIdle == gp = <<>>

\* no download was started and the item directory is empty
DlIdle ==
    /\ dir = <<>>
    /\ inode = <<>>
    /\ dl = <<>>

\* nothing else was called
ExtIdle ==
    /\ mf = <<>>
    /\ csvin = <<>>
    /\ reg = <<>>
    /\ rt = <<>>
    /\ pg = <<>>
    /\ lg = <<>>
    /\ rcfg = <<>>

RestIdle == CdnIdle /\ ParIdle /\ DlIdle /\ ExtIdle

InitCdn ==
    /\ cu_url \in Urls
    /\ cu_cdn \in GitHubCdn
    /\ cu_out = <<>>
    /\ cu_pc = "call"
    /\ ParIdle
    /\ DlIdle
    /\ ExtIdle
    /\ ProviderNew("Raw")
    /\ rlog = NoRefresh
    /\ call = NoCall
    /\ memo = NoCall

ConvertUrl ==
    /\ cu_pc = "call"
    /\ cu_out' = convert_url(cu_cdn, cu_url)
    /\ cu_pc' = "ret"
    /\ UNCHANGED <<cu_url, cu_cdn, provVars, obsVars, parVars, dlVars, extVars>>

\* the converted URL is handed to convert_url of the same variant again
ConvertAgain ==
    /\ cu_pc = "ret"
    /\ cu_url' = cu_out
    /\ cu_out' = convert_url(cu_cdn, cu_out)
    /\ cu_pc' = "ret2"
    /\ UNCHANGED <<cu_cdn, provVars, obsVars, parVars, dlVars, extVars>>

NextCdnTwice == ConvertUrl \/ ConvertAgain

SpecCdnTwice == InitCdn /\ [][NextCdnTwice]_vars

NextCdn == ConvertUrl

SpecCdn == InitCdn /\ [][NextCdn]_vars

\* ------------------------------------------------ refresh as a state machine
\* Feeds with a placeholder row and a row csv rejects; every way a request
\* can fail: no answer, a non-success status, a body that cannot be read
\* or parsed.  (A malformed row of the index body is no error: the row is
\* skipped.)
Feeds == SeqsUpTo({RowW1, RowPh, RowBad}, MaxFeed)
Payloads == {1, 2}
FailKinds == {"network", "status", "body"}
RefreshCfgs == [cdn : {"GhFast", "absent"}, other : {"absent"}]

Init ==
    /\ ProviderNew("Raw")
    /\ rlog = NoRefresh
    /\ call = NoCall
    /\ memo = NoCall
    /\ RestIdle

\* a refresh call starts; rlog is the record of the call
Begin ==
    /\ \E cfg \in RefreshCfgs : RefreshBegin(cfg)
    /\ rlog' = [NoRefresh EXCEPT !.ret = "pending"]
    /\ UNCHANGED <<restVars, call, memo>>

\* the call returns Err(err)
Returns(err) == rlog' = [rlog EXCEPT !.ret = "Err", !.err = err]

\* the call has fetched `got` and replaced the cache of `stage`
Stored(stage, got) ==
    rlog' = [rlog EXCEPT !.stored = @ \cup {stage},
                         !.ret = IF stage = "explore" THEN "Ok" ELSE @,
                         !.list = IF stage = "index" THEN got ELSE @,
                         !.map = IF stage = "devmap" THEN got ELSE @,
                         !.value = IF stage = "explore" THEN got ELSE @]

IndexResponse ==
    /\ \/ \E kind \in FailKinds : RefreshErr("index") /\ Returns(<<"index", kind>>)
       \/ \E feed \in Feeds :
            /\ RefreshIndexOk(feed)
            /\ Stored("index", IngestFrom(feed, placeholderIndex).list)
    /\ UNCHANGED <<restVars, call, memo>>

DevmapResponse ==
    /\ \/ \E kind \in FailKinds : RefreshErr("devmap") /\ Returns(<<"devmap", kind>>)
       \/ \E map \in Payloads : RefreshDevmapOk(map) /\ Stored("devmap", map)
    /\ UNCHANGED <<restVars, call, memo>>

ExploreResponse ==
    /\ \/ \E kind \in FailKinds : RefreshErr("explore") /\ Returns(<<"explore", kind>>)
       \/ \E value \in Payloads : RefreshExploreOk(value) /\ Stored("explore", value)
    /\ UNCHANGED <<restVars, call, memo>>

Next == Begin \/ IndexResponse \/ DevmapResponse \/ ExploreResponse

Spec == Init /\ [][Next]_vars

\* the same machine, with the caches as they were when the refresh call
\* started kept in the record of the call
CachesNow ==
    [index |-> index, splited_index |-> splited_index, splited_limit |-> splited_limit,
     device_map |-> device_map, explore |-> explore]

OrderBegin ==
    /\ \E cfg \in RefreshCfgs : RefreshBegin(cfg)
    /\ rlog' = [ret |-> "pending", err |-> NoErr, stored |-> {},
                list |-> <<>>, map |-> 0, value |-> 0, before |-> CachesNow]
    /\ UNCHANGED <<restVars, call, memo>>

NextOrder == OrderBegin \/ IndexResponse \/ DevmapResponse \/ ExploreResponse

SpecOrder == Init /\ [][NextOrder]_vars

\* ----------------------------------------------- get_page as a state machine
\* feeds of rows with their own ids, none to three rows; refresh replaces
\* the index and selects a mirror
PageFeeds ==
    {<<>>, <<RowW1>>, <<RowW1, RowW2>>, <<RowW2, RowW1>>, <<RowW1, RowW2, RowW1>>}
PageCfgs == [cdn : {"GhFast"}, other : {"absent"}]

InitPage ==
    /\ ProviderNew("Raw")
    /\ rlog = NoRefresh
    /\ call = NoCall
    /\ memo = NoCall
    /\ RestIdle

PageBegin ==
    /\ \E cfg \in PageCfgs : RefreshBegin(cfg)
    /\ call' = NoCall
    /\ UNCHANGED <<restVars, rlog, memo>>

PageRefreshFails ==
    /\ \E stage \in {"index", "devmap", "explore"} : RefreshErr(stage)
    /\ call' = NoCall
    /\ UNCHANGED <<restVars, rlog, memo>>

PageIndexResponse ==
    /\ \E feed \in PageFeeds : RefreshIndexOk(feed)
    /\ call' = NoCall
    /\ UNCHANGED <<restVars, rlog, memo>>

PageDevmapResponse ==
    /\ RefreshDevmapOk(1)
    /\ call' = NoCall
    /\ UNCHANGED <<restVars, rlog, memo>>

PageExploreResponse ==
    /\ RefreshExploreOk(1)
    /\ call' = NoCall
    /\ UNCHANGED <<restVars, rlog, memo>>

PageCall ==
    /\ GetPage(0..MaxPage, 0..MaxLimit, SortRuleV2, SearchConfigs)
    /\ UNCHANGED <<restVars, rlog, memo>>

NextPage ==
    \/ PageBegin \/ PageRefreshFails \/ PageIndexResponse \/ PageDevmapResponse
    \/ PageExploreResponse \/ PageCall

SpecPage == InitPage /\ [][NextPage]_vars

\* ------------------------------------------- get_page with search filters
\* a third row: name "A", devices "d2 ;d3", tags "a;z"
RowW3 == [valid |-> TRUE, id |-> <<"w", 3>>, name |-> <<65>>,
          devices |-> D2 \o <<32, 59>> \o D3, tags |-> <<97, 59, 122>>]

FilterFeeds == {<<RowW1>>, <<RowW1, RowW2, RowW3>>}

\* no filter; category [d2]; category [d3]; keyword "a"; keyword "A";
\* category [d2] with keyword "a"
FilterConfigs ==
    {NoSearch,
     [filter |-> None, category |-> Some(<<D2>>)],
     [filter |-> None, category |-> Some(<<D3>>)],
     [filter |-> Some(<<97>>), category |-> None],
     [filter |-> Some(<<65>>), category |-> None],
     [filter |-> Some(<<97>>), category |-> Some(<<D2>>)]}

FilterIndexResponse ==
    /\ \E feed \in FilterFeeds : RefreshIndexOk(feed)
    /\ call' = NoCall
    /\ UNCHANGED <<restVars, rlog, memo>>

FilterCall ==
    /\ GetPage(0..MaxPage, 1..MaxLimit, {"Name", "Time"}, FilterConfigs)
    /\ UNCHANGED <<restVars, rlog, memo>>

NextFilter ==
    \/ PageBegin \/ PageRefreshFails \/ FilterIndexResponse \/ PageDevmapResponse
    \/ PageExploreResponse \/ FilterCall

SpecFilter == InitPage /\ [][NextFilter]_vars

\* ----------------------------------------- the csv loop of refresh, observed
\* csvin keeps the feed the stored index was read from and the running
\* counter the loop started with.  RowNamed is a real row whose id is the
\* text "placeholder_0".
RowNamed == [valid |-> TRUE, id |-> SynthId(0), name |-> <<99>>,
             devices |-> D1, tags |-> <<116>>]

IngestFeeds == SeqsUpTo({RowW1, RowPh, RowBad, RowNamed}, MaxFeed)

IngestIndexResponse ==
    /\ \E feed \in IngestFeeds :
          /\ RefreshIndexOk(feed)
          /\ csvin' = [feed |-> feed, n |-> placeholderIndex]
    /\ call' = NoCall
    /\ UNCHANGED <<cdnVars, parVars, dlVars, mf, reg, rt, pg, lg, rcfg, rlog, memo>>

NextIngest ==
    \/ PageBegin \/ PageRefreshFails \/ IngestIndexResponse \/ PageDevmapResponse
    \/ PageExploreResponse

SpecIngest == InitPage /\ [][NextIngest]_vars

\* ---------------------------------------- refresh: the config and the CDN
\* rcfg is the config the refresh under way (or the last one) was called
\* with; set_cdn is called between refreshes.
CfgBegin ==
    /\ \E cfg \in Cfgs : RefreshBegin(cfg) /\ rcfg' = cfg
    /\ call' = NoCall
    /\ UNCHANGED <<cdnVars, parVars, dlVars, mf, csvin, reg, rt, pg, lg, rlog, memo>>

CfgSetCdn ==
    /\ rpc = "idle"
    /\ \E c \in GitHubCdn : set_cdn(c)
    /\ call' = NoCall
    /\ UNCHANGED <<restVars, rlog, memo>>

NextCfg ==
    \/ CfgBegin \/ CfgSetCdn \/ PageRefreshFails \/ PageIndexResponse
    \/ PageDevmapResponse \/ PageExploreResponse

SpecCfg == InitPage /\ [][NextCfg]_vars

\* ------------------------------------- repeated get_page calls, compared
\* memo keeps one earlier Name- or Time-sorted call that returned Ok, for as
\* long as the index it was served from is the stored one; set_cdn may
\* select another mirror at any time.
DetFeeds == {<<RowW2, RowW1>>}
DetSearches == {NoSearch}

InitDet ==
    /\ ProviderNew("Raw")
    /\ rlog = NoRefresh
    /\ call = NoCall
    /\ memo = NoCall
    /\ RestIdle

DetIndexResponse ==
    /\ \E feed \in DetFeeds : RefreshIndexOk(feed)
    /\ call' = NoCall
    /\ memo' = NoCall
    /\ UNCHANGED <<restVars, rlog>>

DetSetCdn ==
    /\ \E c \in {"Raw", "GhFast"} : set_cdn(c)
    /\ call' = NoCall
    /\ UNCHANGED <<restVars, rlog, memo>>

Keeps(c) == c.outcome = "Ok" /\ c.sort \in {"Name", "Time"}

DetCall ==
    /\ GetPage(0..MaxPage, 1..MaxLimit, SortRuleV2, DetSearches)
    /\ \/ memo' = memo
       \/ Keeps(call') /\ memo' = [call' EXCEPT !.found = "none"]
    /\ UNCHANGED <<restVars, rlog>>

NextDet ==
    \/ PageBegin \/ PageRefreshFails \/ DetIndexResponse \/ PageDevmapResponse
    \/ PageExploreResponse \/ DetSetCdn \/ DetCall

SpecDet == InitDet /\ [][NextDet]_vars

\* ------------------------------------- a walk through the Random pages
\* unfiltered Random-sorted calls, one after the other; memo is the call
\* made just before the latest one, with no refresh in between
WalkFeeds == {<<RowW1, RowW2>>, <<RowW1, RowW2, RowW3>>}

WalkIndexResponse ==
    /\ \E feed \in WalkFeeds : RefreshIndexOk(feed)
    /\ call' = NoCall
    /\ memo' = NoCall
    /\ UNCHANGED <<restVars, rlog>>

WalkCall ==
    /\ GetPage(0..MaxPage, 1..MaxLimit, {"Random"}, {NoSearch})
    /\ memo' = call
    /\ UNCHANGED <<restVars, rlog>>

NextWalk ==
    \/ PageBegin \/ PageRefreshFails \/ WalkIndexResponse \/ PageDevmapResponse
    \/ PageExploreResponse \/ WalkCall

SpecWalk == InitDet /\ [][NextWalk]_vars

\* ------------------------------- get_page and refresh running in parallel
\* get_page has no await, but the provider is Sync and the runtime is
\* multi-threaded: calls on several threads interleave at every load and
\* store of the ArcSwap fields, and so do the stores of a refresh.
\* threads that call get_page
MaxThreads == 2
Threads == 1..MaxThreads
ParFeeds == {<<RowW2, RowW1>>}

\* the callers differ in the sort rule they ask for
ParSortOf(t) == IF t % 2 = 1 THEN "Name" ELSE "Time"

NoThread ==
    [pc |-> "idle", page |-> 0, limit |-> 0, sort |-> "Random", idx |-> <<>>,
     outcome |-> "none", ret |-> <<>>]

InitPar ==
    /\ ProviderNew("Raw")
    /\ rlog = NoRefresh
    /\ call = NoCall
    /\ memo = NoCall
    /\ CdnIdle
    /\ DlIdle
    /\ ExtIdle
    /\ gp = [t \in Threads |-> NoThread]

ParRest == UNCHANGED <<cdnVars, dlVars, obsVars, extVars>>

\* thread t enters get_page(page, limit, search)
ParCall(t) ==
    /\ gp[t].pc = "idle"
    /\ \E page \in 0..MaxPage, limit \in 1..MaxLimit :
          gp' = [gp EXCEPT ![t] = [NoThread EXCEPT !.pc = "292", !.page = page,
                                                   !.limit = limit,
                                                   !.sort = ParSortOf(t)]]
    /\ UNCHANGED provVars
    /\ ParRest

\* line 292: load splited_limit and test it
ParTest(t) ==
    /\ gp[t].pc = "292"
    /\ gp' = [gp EXCEPT ![t].pc =
                 IF NeedsSplit(splited_limit, gp[t].limit) THEN "133" ELSE "296"]
    /\ UNCHANGED provVars
    /\ ParRest

\* line 133: split_index loads the index
ParLoadIndex(t) ==
    /\ gp[t].pc = "133"
    /\ gp' = [gp EXCEPT ![t].pc = "151", ![t].idx = index]
    /\ UNCHANGED provVars
    /\ ParRest

\* line 151: split_index stores the pages it made of the index it loaded
ParStoreSplit(t) ==
    /\ gp[t].pc = "151"
    /\ splited_index' \in SplitResults(gp[t].idx, gp[t].limit, gp[t].sort)
    /\ splited_sort' = gp[t].sort
    /\ gp' = [gp EXCEPT ![t].pc = "152"]
    /\ UNCHANGED <<state, cdn, index, splited_limit, device_map, explore,
                   placeholderIndex, rpc, rreq>>
    /\ ParRest

\* line 152: split_index stores the limit
ParStoreLimit(t) ==
    /\ gp[t].pc = "152"
    /\ splited_limit' = gp[t].limit
    /\ gp' = [gp EXCEPT ![t].pc = "296"]
    /\ UNCHANGED <<state, cdn, index, splited_index, splited_sort, device_map,
                   explore, placeholderIndex, rpc, rreq>>
    /\ ParRest

\* line 296: load splited_index and test the page number
ParRangeCheck(t) ==
    /\ gp[t].pc = "296"
    /\ gp' = [gp EXCEPT ![t] =
                 IF OutOfRange(splited_index, gp[t].page)
                 THEN [@ EXCEPT !.pc = "idle", !.idx = <<>>, !.outcome = "Ok",
                                !.ret = <<>>]
                 ELSE [@ EXCEPT !.pc = "300"]]
    /\ UNCHANGED provVars
    /\ ParRest

\* lines 300-343: load splited_index again, take the page, build the result
ParReadPage(t) ==
    /\ gp[t].pc = "300"
    /\ LET res == PageRead(splited_index, gp[t].page, NoSearch, cdn) IN
         gp' = [gp EXCEPT ![t].pc = "idle", ![t].idx = <<>>,
                          ![t].outcome = res.outcome, ![t].ret = res.ret]
    /\ UNCHANGED provVars
    /\ ParRest

\* refresh, lines 250-266: the index body is parsed and stored
ParIndexStore ==
    /\ rpc = "index"
    /\ \E feed \in ParFeeds :
         LET ing == IngestFrom(feed, placeholderIndex) IN
            /\ index' = ing.list
            /\ placeholderIndex' = ing.n
    /\ rpc' = "267"
    /\ UNCHANGED <<state, cdn, splited_index, splited_limit, splited_sort,
                   device_map, explore, rreq, gp>>
    /\ ParRest

\* refresh, line 267 (split_index line 151)
ParRefreshStoreSplit ==
    /\ rpc = "267"
    /\ splited_index' \in SplitResults(index, RefreshLimit, "Random")
    /\ splited_sort' = "Random"
    /\ rpc' = "152"
    /\ UNCHANGED <<state, cdn, index, splited_limit, device_map, explore,
                   placeholderIndex, rreq, gp>>
    /\ ParRest

\* refresh, line 267 (split_index line 152), up to the device map request
ParRefreshStoreLimit ==
    /\ rpc = "152"
    /\ splited_limit' = RefreshLimit
    /\ rreq' = convert_url(cdn, DevicesUrl)
    /\ rpc' = "devmap"
    /\ UNCHANGED <<state, cdn, index, splited_index, splited_sort, device_map,
                   explore, placeholderIndex, gp>>
    /\ ParRest

ParBegin ==
    /\ \E cfg \in PageCfgs : RefreshBegin(cfg)
    /\ UNCHANGED gp
    /\ ParRest

ParRefreshFails ==
    /\ \E stage \in {"index", "devmap", "explore"} : RefreshErr(stage)
    /\ UNCHANGED gp
    /\ ParRest

ParDevmapResponse ==
    /\ RefreshDevmapOk(1)
    /\ UNCHANGED gp
    /\ ParRest

ParExploreResponse ==
    /\ RefreshExploreOk(1)
    /\ UNCHANGED gp
    /\ ParRest

ParGetPage(t) ==
    \/ ParCall(t) \/ ParTest(t) \/ ParLoadIndex(t) \/ ParStoreSplit(t)
    \/ ParStoreLimit(t) \/ ParRangeCheck(t) \/ ParReadPage(t)

NextPar ==
    \/ \E t \in Threads : ParGetPage(t)
    \/ ParBegin \/ ParRefreshFails \/ ParIndexStore \/ ParRefreshStoreSplit
    \/ ParRefreshStoreLimit \/ ParDevmapResponse \/ ParExploreResponse

SpecPar == InitPar /\ [][NextPar]_vars

\* -------------------------------------------------------------- download
\* Download calls for one item and one device: they share the item
\* directory, the final path and the artifact.  A call is followed from one
\* await to the next.
\* download calls followed
MaxCalls == 2
\* SystemTime::now() as nanoseconds since the epoch.  The clock has a finite
\* resolution and may be set back, and a clock before the epoch reads as 0
\* (unwrap_or_default): two calls can read the same value.
MaxStamp == 2
DlCalls == 1..MaxCalls
Stamps == 1..MaxStamp

\* the artifact, one byte per chunk of the response stream
Body == <<1, 2>>

FinalPath == <<"final", 0>>
TmpPath(ts) == <<"part", ts>>
NoPath == <<"none", 0>>
DlPaths == {FinalPath} \cup {TmpPath(ts) : ts \in Stamps}

NoDownload == [pc |-> "new", tmp |-> NoPath, file |-> 0, off |-> 0, ret |-> "none"]

\* a write of one byte at an offset; a gap before it reads as zeros
WriteAt(content, off, byte) ==
    LET padded == content \o [i \in 1..(off - Len(content)) |-> 0] IN
    IF off < Len(padded) THEN [padded EXCEPT ![off + 1] = byte]
    ELSE Append(padded, byte)

InitDl ==
    /\ ProviderNew("Raw")
    /\ rlog = NoRefresh
    /\ call = NoCall
    /\ memo = NoCall
    /\ CdnIdle
    /\ ParIdle
    /\ ExtIdle
    /\ dir = [p \in DlPaths |-> 0]
    /\ inode = [f \in DlCalls |-> <<>>]
    /\ dl = [d \in DlCalls |-> NoDownload]

DlRest == UNCHANGED <<cdnVars, parVars, provVars, obsVars, extVars>>

\* lines 412-465: one of the `?` before the temporary path is chosen returns
\* (item not found, manifest, no entry, no file name, cache directory)
DlEarlyErr(d) ==
    /\ dl[d].pc = "new"
    /\ dl' = [dl EXCEPT ![d].pc = "done", ![d].ret = "Err"]
    /\ UNCHANGED <<dir, inode>>
    /\ DlRest

\* lines 412-474: up to File::create, with the clock read at line 468
DlBegin(d) ==
    /\ dl[d].pc = "new"
    /\ \E ts \in Stamps : dl' = [dl EXCEPT ![d].pc = "create", ![d].tmp = TmpPath(ts)]
    /\ UNCHANGED <<dir, inode>>
    /\ DlRest

\* line 481: File::create makes the file, or truncates the one that is there
DlCreate(d) ==
    /\ dl[d].pc = "create"
    /\ LET f == IF dir[dl[d].tmp] = 0 THEN d ELSE dir[dl[d].tmp] IN
         /\ dir' = [dir EXCEPT ![dl[d].tmp] = f]
         /\ inode' = [inode EXCEPT ![f] = <<>>]
         /\ dl' = [dl EXCEPT ![d].pc = "send", ![d].file = f]
    /\ DlRest

\* lines 492-500: the response arrives with a success status
DlSend(d) ==
    /\ dl[d].pc = "send"
    /\ dl' = [dl EXCEPT ![d].pc = "chunk"]
    /\ UNCHANGED <<dir, inode>>
    /\ DlRest

\* lines 509-514: one chunk is written through the open file
DlChunk(d) ==
    /\ dl[d].pc = "chunk"
    /\ dl[d].off < Len(Body)
    /\ inode' = [inode EXCEPT ![dl[d].file] = WriteAt(@, dl[d].off, Body[dl[d].off + 1])]
    /\ dl' = [dl EXCEPT ![d].off = @ + 1]
    /\ UNCHANGED dir
    /\ DlRest

\* lines 509, 547-551: the stream has ended; flush and drop the file
DlFlush(d) ==
    /\ dl[d].pc = "chunk"
    /\ dl[d].off = Len(Body)
    /\ dl' = [dl EXCEPT ![d].pc = "rename", ![d].file = 0]
    /\ UNCHANGED <<dir, inode>>
    /\ DlRest

\* line 553: rename the temporary file over the final path, return Ok
DlRename(d) ==
    /\ dl[d].pc = "rename"
    /\ dir[dl[d].tmp] # 0
    /\ dir' = [dir EXCEPT ![FinalPath] = dir[dl[d].tmp], ![dl[d].tmp] = 0]
    /\ dl' = [dl EXCEPT ![d].pc = "done", ![d].ret = "Ok"]
    /\ UNCHANGED inode
    /\ DlRest

\* line 553: there is no file at the temporary path, rename fails
DlRenameMissing(d) ==
    /\ dl[d].pc = "rename"
    /\ dir[dl[d].tmp] = 0
    /\ dl' = [dl EXCEPT ![d].pc = "cleanup"]
    /\ UNCHANGED <<dir, inode>>
    /\ DlRest

\* a `?` inside the async block returns: create, request, status, chunk
\* read, write, flush or rename failed
DlFails(d) ==
    /\ dl[d].pc \in {"create", "send", "chunk", "rename"}
    /\ dl' = [dl EXCEPT ![d].pc = "cleanup", ![d].file = 0]
    /\ UNCHANGED <<dir, inode>>
    /\ DlRest

\* lines 573-577: remove the temporary path, return the error
DlCleanup(d) ==
    /\ dl[d].pc = "cleanup"
    /\ dir' = [dir EXCEPT ![dl[d].tmp] = 0]
    /\ dl' = [dl EXCEPT ![d].pc = "done", ![d].ret = "Err"]
    /\ UNCHANGED inode
    /\ DlRest

Download(d) ==
    \/ DlEarlyErr(d) \/ DlBegin(d) \/ DlCreate(d) \/ DlSend(d) \/ DlChunk(d)
    \/ DlFlush(d) \/ DlRename(d) \/ DlRenameMissing(d) \/ DlFails(d) \/ DlCleanup(d)

NextDl == \E d \in DlCalls : Download(d)

SpecDl == InitDl /\ [][NextDl]_vars

\* ---------------------------------------------- legacy manifest conversion
\* map_download_key_v1_to_v2: the fixed table, any other key unchanged
KeyTable ==
    [k \in {"n62", "o62", "o62m", "p62", "p62m", "o65", "o65m", "n66", "n67",
            "o66", "o66nfc", "p65"} |->
        CASE k = "n62" -> "xmws3"
          [] k = "o62" -> "xmws4"
          [] k = "o62m" -> "xmws4xring"
          [] k = "p62" -> "xmws5"
          [] k = "p62m" -> "xmws5xring"
          [] k = "o65" -> "xmrw5"
          [] k = "o65m" -> "xmrw5xring"
          [] k = "n66" -> "xmb9"
          [] k = "n67" -> "xmb9p"
          [] k = "o66" -> "xmb10"
          [] k = "o66nfc" -> "xmb10nfc"
          [] k = "p65" -> "xmrw6"]

map_download_key_v1_to_v2(key) ==
    IF key \in DOMAIN KeyTable THEN KeyTable[key] ELSE key

\* A map (a HashMap, a JSON object) is the sequence of its <<key, value>>
\* pairs in iteration order, the keys pairwise distinct.
MaxMap == 2
MapsOver(keys, values) ==
    {m \in SeqsUpTo(keys \X values, MaxMap) :
        \A i, j \in 1..Len(m) : i # j => m[i][1] # m[j][1]}

MapKeys(m) == {m[i][1] : i \in 1..Len(m)}
MapGet(m, k) == m[CHOOSE i \in 1..Len(m) : m[i][1] = k][2]

\* HashMap::insert: the value of a key that is there is replaced
MapInsert(m, k, v) ==
    IF k \in MapKeys(m)
    THEN [i \in 1..Len(m) |-> IF m[i][1] = k THEN <<k, v>> ELSE m[i]]
    ELSE Append(m, <<k, v>>)

\* the same entries in any iteration order
Reorderings(m) ==
    {[i \in 1..Len(m) |-> m[f[i]]] : f \in Permutations(1..Len(m))}

\* lines 154-203: the ManifestDownloadV2 made of a legacy value; a field
\* file_name that is missing or no string gives the empty name
AbsentName == "<absent>"
ConvertEntry(v) == [file_name |-> IF v = AbsentName THEN "" ELSE v]

\* lines 149-206: the loop over the legacy downloads object
RECURSIVE ConvertDownloads(_, _)
ConvertDownloads(obj, acc) ==
    IF obj = <<>> THEN acc
    ELSE ConvertDownloads(Tail(obj),
             MapInsert(acc, map_download_key_v1_to_v2(Head(obj)[1]),
                       ConvertEntry(Head(obj)[2])))

\* manifest_v1_to_v2, the downloads of the result: a HashMap, so in any
\* iteration order
manifest_v1_to_v2(obj) == Reorderings(ConvertDownloads(obj, <<>>))

LegacyKeys == {"n62", "xmws3", "default"}
LegacyValues == {"a.rpk", "b.rpk", AbsentName}
LegacyDocs == MapsOver(LegacyKeys, LegacyValues)

\* the conversion applied to a legacy document: lg is the call, its
\* argument and its result
InitLegacy ==
    /\ ProviderNew("Raw")
    /\ rlog = NoRefresh
    /\ call = NoCall
    /\ memo = NoCall
    /\ CdnIdle /\ ParIdle /\ DlIdle
    /\ mf = <<>> /\ csvin = <<>> /\ reg = <<>> /\ rt = <<>> /\ pg = <<>> /\ rcfg = <<>>
    /\ \E doc \in LegacyDocs : lg = [pc |-> "call", doc |-> doc, out |-> <<>>]

ConvertLegacy ==
    /\ lg.pc = "call"
    /\ \E out \in manifest_v1_to_v2(lg.doc) : lg' = [lg EXCEPT !.pc = "ret", !.out = out]
    /\ UNCHANGED <<cdnVars, provVars, obsVars, parVars, dlVars, mf, csvin, reg, rt, pg, rcfg>>

NextLegacy == ConvertLegacy

SpecLegacy == InitLegacy /\ [][NextLegacy]_vars

\* ------------------------------------- download: manifest and entry choice
\* get_manifest and the entry selection of download, from one await to the
\* next.  reqs lists the files requested, in order.
DlDevices == {"xmws3", "xmb9"}
ManifestKeys == {"xmws3", "default", "xmb10"}
ManifestEntries == {[file_name |-> "a.rpk"], [file_name |-> "b.rpk"]}
ManifestMaps == MapsOver(ManifestKeys, ManifestEntries)

NoEntry == [file_name |-> "<none>"]

\* an answer: the HTTP status (0: the request failed, no answer) and what
\* the body is
NoAnswer == [status |-> 0, body |-> "none"]
Answer(status, body) == [status |-> status, body |-> body]
HttpStatuses == {200, 404, 500}

NoFetch ==
    [pc |-> "new", device |-> "xmws3", reqs |-> <<>>, v2 |-> NoAnswer, v1 |-> NoAnswer,
     doc |-> <<>>, downloads |-> <<>>, got |-> FALSE, ret |-> "none", err |-> "none",
     entry |-> NoEntry]

ManRest == UNCHANGED <<cdnVars, provVars, obsVars, parVars, dlVars,
                       csvin, reg, rt, pg, lg, rcfg>>

InitMan ==
    /\ ProviderNew("Raw")
    /\ rlog = NoRefresh
    /\ call = NoCall
    /\ memo = NoCall
    /\ CdnIdle /\ ParIdle /\ DlIdle
    /\ csvin = <<>> /\ reg = <<>> /\ rt = <<>> /\ pg = <<>> /\ lg = <<>> /\ rcfg = <<>>
    /\ mf = NoFetch

ManErr(err) ==
    [mf EXCEPT !.pc = "done", !.ret = "Err", !.err = err]

\* download lines 412-427 and get_manifest lines 194-197: the item is
\* looked up and manifest_v2.json is requested
ManStart ==
    /\ mf.pc \in {"new", "done"}
    /\ \E device \in DlDevices, found \in BOOLEAN :
          mf' = IF found
                THEN [NoFetch EXCEPT !.pc = "v2", !.device = device,
                                     !.reqs = <<"manifest_v2.json">>]
                ELSE [NoFetch EXCEPT !.pc = "done", !.device = device,
                                     !.ret = "Err", !.err = "Item not found"]
    /\ ManRest

\* a fallback on every client or server error status
IsNotFoundOrError(status) == status >= 400

\* line 199: resp_v2.status() == StatusCode::NOT_FOUND
IsNotFound(status) == status = 404

\* get_manifest line 197: the request for manifest_v2.json fails
ManV2Fails ==
    /\ mf.pc = "v2"
    /\ mf' = [ManErr("send") EXCEPT !.v2 = Answer(0, "network")]
    /\ ManRest

\* get_manifest lines 197-225: the answer to the request for manifest_v2.json
ManV2Response ==
    /\ mf.pc = "v2"
    /\ \E status \in HttpStatuses :
          IF IsNotFound(status)
          THEN mf' = [mf EXCEPT !.pc = "v1", !.v2 = Answer(status, "none"),
                                !.reqs = Append(@, "manifest.json")]
          ELSE IF status # 200
          THEN mf' = [ManErr("status") EXCEPT !.v2 = Answer(status, "none")]
          ELSE \/ mf' = [ManErr("parse") EXCEPT !.v2 = Answer(status, "unparsable")]
               \/ \E m \in ManifestMaps :
                     mf' = [mf EXCEPT !.pc = "select", !.v2 = Answer(status, "manifest"),
                                      !.downloads = m, !.got = TRUE]
    /\ ManRest

\* get_manifest lines 201-205: the request for manifest.json fails
ManV1Fails ==
    /\ mf.pc = "v1"
    /\ mf' = [ManErr("send") EXCEPT !.v1 = Answer(0, "network")]
    /\ ManRest

\* get_manifest lines 201-215: the answer to the request for manifest.json
ManV1Response ==
    /\ mf.pc = "v1"
    /\ \E status \in HttpStatuses :
          IF status # 200
          THEN mf' = [ManErr("status") EXCEPT !.v1 = Answer(status, "none")]
          ELSE \/ mf' = [ManErr("parse") EXCEPT !.v1 = Answer(status, "unparsable")]
               \/ \E doc \in LegacyDocs : \E m \in manifest_v1_to_v2(doc) :
                     mf' = [mf EXCEPT !.pc = "select", !.v1 = Answer(status, "manifest"),
                                      !.doc = doc, !.downloads = m, !.got = TRUE]
    /\ ManRest

\* a selection that does not look for the "default" entry
SelectEntryNoDefault(downloads, device) ==
    IF device \in MapKeys(downloads) THEN MapGet(downloads, device)
    ELSE IF downloads # <<>> THEN downloads[1][2]
    ELSE NoEntry

\* lines 429-435: get(device), or get("default"), or values().next()
SelectEntry(downloads, device) ==
    IF device \in MapKeys(downloads) THEN MapGet(downloads, device)
    ELSE IF "default" \in MapKeys(downloads) THEN MapGet(downloads, "default")
    ELSE IF downloads # <<>> THEN downloads[1][2]
    ELSE NoEntry

\* download lines 428-435
ManSelect ==
    /\ mf.pc = "select"
    /\ LET entry == SelectEntry(mf.downloads, mf.device) IN
         mf' = IF entry = NoEntry
               THEN ManErr("no downloadable artifact")
               ELSE [mf EXCEPT !.pc = "done", !.ret = "Ok", !.entry = entry]
    /\ ManRest

NextMan ==
    \/ ManStart \/ ManV2Fails \/ ManV2Response \/ ManV1Fails \/ ManV1Response
    \/ ManSelect

SpecMan == InitMan /\ [][NextMan]_vars

\* ------------------------------------------------- the provider registry
\* COMMUNITY_PROVIDERS: a Mutex<Vec<Arc<dyn CommunityProvider>>>.  An entry
\* is [name, inst]: what provider_name() returns and which allocation the
\* Arc points to.
\* entries the registry holds at most
MaxReg == 3
RegNames == {"a", "b"}
Insts == 1..MaxReg

\* a new Arc: an allocation no registered provider uses
FreshInst(locked) ==
    CHOOSE n \in Insts :
        /\ \A i \in 1..Len(locked) : locked[i].inst # n
        /\ \A m \in Insts : (\A i \in 1..Len(locked) : locked[i].inst # m) => n <= m

\* a registration that replaces the entries of the same name
add_replacing(locked, provider) ==
    Append(SelectSeq(locked, LAMBDA p : p.name # provider.name), provider)

\* line 12: locked.push(provider)
add_community_provider(locked, provider) == Append(locked, provider)

\* line 18: locked.retain(|p| p.provider_name() != name)
RECURSIVE remove_community_provider(_, _)
remove_community_provider(locked, name) ==
    IF locked = <<>> THEN <<>>
    ELSE IF Head(locked).name # name
         THEN <<Head(locked)>> \o remove_community_provider(Tail(locked), name)
         ELSE remove_community_provider(Tail(locked), name)

\* lines 24-29: the first entry whose name is `name`
RECURSIVE get_community_provider(_, _)
get_community_provider(locked, name) ==
    IF locked = <<>> THEN None
    ELSE IF Head(locked).name = name THEN Some(Head(locked))
    ELSE get_community_provider(Tail(locked), name)

\* line 35: locked.iter().map(|p| p.provider_name()).collect()
list_community_providers(locked) == [i \in 1..Len(locked) |-> locked[i].name]

\* rt is the record of the last call: the registry it found and its result
NoRegCall == [op |-> "none", arg |-> "", before |-> <<>>, ret |-> <<>>]

RegRest == UNCHANGED <<cdnVars, provVars, obsVars, parVars, dlVars,
                       mf, csvin, pg, lg, rcfg>>

InitReg ==
    /\ ProviderNew("Raw")
    /\ rlog = NoRefresh
    /\ call = NoCall
    /\ memo = NoCall
    /\ CdnIdle /\ ParIdle /\ DlIdle
    /\ mf = <<>> /\ csvin = <<>> /\ pg = <<>> /\ lg = <<>> /\ rcfg = <<>>
    /\ reg = <<>>
    /\ rt = NoRegCall

RegAdd ==
    /\ Len(reg) < MaxReg
    /\ \E name \in RegNames :
          LET provider == [name |-> name, inst |-> FreshInst(reg)] IN
          /\ reg' = add_community_provider(reg, provider)
          /\ rt' = [op |-> "register", arg |-> provider, before |-> reg, ret |-> <<>>]
    /\ RegRest

RegRemove ==
    /\ \E name \in RegNames :
          /\ reg' = remove_community_provider(reg, name)
          /\ rt' = [op |-> "unregister", arg |-> name, before |-> reg, ret |-> <<>>]
    /\ RegRest

RegGet ==
    /\ \E name \in RegNames :
          rt' = [op |-> "get", arg |-> name, before |-> reg,
                 ret |-> get_community_provider(reg, name)]
    /\ UNCHANGED reg
    /\ RegRest

RegList ==
    /\ rt' = [op |-> "list_names", arg |-> "", before |-> reg,
              ret |-> list_community_providers(reg)]
    /\ UNCHANGED reg
    /\ RegRest

NextReg == RegAdd \/ RegRemove \/ RegGet \/ RegList

SpecReg == InitReg /\ [][NextReg]_vars

\* ---------------------------------------- the registry, calls in parallel
\* Each call locks the mutex, runs its body and unlocks when the guard is
\* dropped.  The bodies run entry by entry: retain examines one entry at a
\* time, and so do the loop of get and the iterator of list_names.
\* rt.lock is the thread that holds the mutex (0: free), rt.th the calls,
\* and rt.lin the registry the calls would have built had each run, whole,
\* at the moment it took the lock; a call's `expect` is the result it would
\* have returned then.
\* threads that call the registry
RegThreads == 2
RegCallers == 1..RegThreads
RegOps == {"register", "unregister", "get", "list_names"}

NoRegThread ==
    [pc |-> "idle", op |-> "none", arg |-> "", i |-> 0, ret |-> <<>>, expect |-> <<>>]

\* the registrations under way
Registering(t) == rt.th[t].pc \in {"lock", "body"} /\ rt.th[t].op = "register"

InitRegPar ==
    /\ ProviderNew("Raw")
    /\ rlog = NoRefresh
    /\ call = NoCall
    /\ memo = NoCall
    /\ CdnIdle /\ ParIdle /\ DlIdle
    /\ mf = <<>> /\ csvin = <<>> /\ pg = <<>> /\ lg = <<>> /\ rcfg = <<>>
    /\ reg = <<>>
    /\ rt = [lock |-> 0, lin |-> <<>>, th |-> [t \in RegCallers |-> NoRegThread]]

\* a caller enters one of the four functions; a provider to register is a
\* new Arc
RegCall(t) ==
    /\ rt.th[t].pc = "idle"
    /\ \E op \in RegOps, name \in RegNames :
          /\ op = "list_names" => name = "a"
          /\ op = "register" =>
                Len(reg) + Cardinality({u \in RegCallers : Registering(u)}) < MaxReg
          /\ LET used == {reg[i].inst : i \in 1..Len(reg)}
                           \cup {rt.th[u].arg.inst : u \in {v \in RegCallers : Registering(v)}}
                 arg == IF op = "register"
                        THEN [name |-> name,
                              inst |-> CHOOSE n \in Insts \ used :
                                           \A m \in Insts \ used : n <= m]
                        ELSE IF op = "list_names" THEN "" ELSE name
             IN rt' = [rt EXCEPT !.th[t] = [NoRegThread EXCEPT !.pc = "lock", !.op = op,
                                                               !.arg = arg]]
    /\ UNCHANGED reg
    /\ RegRest

\* a mutex that lets every caller in
LockFreeAlways(lock) == TRUE

\* providers.lock(): the caller gets the guard when no one holds it
LockFree(lock) == lock = 0

\* lines 10-11, 16-17, 22-23, 33-34: the guard is taken
RegLock(t) ==
    /\ rt.th[t].pc = "lock"
    /\ LockFree(rt.lock)
    /\ LET c == rt.th[t] IN
       rt' = [rt EXCEPT
                !.lock = t,
                !.lin = CASE c.op = "register" -> add_community_provider(@, c.arg)
                          [] c.op = "unregister" -> remove_community_provider(@, c.arg)
                          [] OTHER -> @,
                !.th[t] = [c EXCEPT
                             !.pc = "body", !.i = 1,
                             !.expect = CASE c.op = "get" ->
                                                get_community_provider(rt.lin, c.arg)
                                          [] c.op = "list_names" ->
                                                list_community_providers(rt.lin)
                                          [] OTHER -> <<>>]]
    /\ UNCHANGED reg
    /\ RegRest

\* line 12: push
RegPush(t) ==
    /\ rt.th[t].pc = "body" /\ rt.th[t].op = "register"
    /\ reg' = Append(reg, rt.th[t].arg)
    /\ rt' = [rt EXCEPT !.th[t].pc = "unlock"]
    /\ RegRest

\* line 18: retain examines the entry at i, drops it or steps over it
RegRetainStep(t) ==
    /\ rt.th[t].pc = "body" /\ rt.th[t].op = "unregister"
    /\ LET i == rt.th[t].i IN
       IF i > Len(reg)
       THEN rt' = [rt EXCEPT !.th[t].pc = "unlock"] /\ UNCHANGED reg
       ELSE IF reg[i].name = rt.th[t].arg
       THEN /\ reg' = SubSeq(reg, 1, i - 1) \o SubSeq(reg, i + 1, Len(reg))
            /\ UNCHANGED rt
       ELSE rt' = [rt EXCEPT !.th[t].i = i + 1] /\ UNCHANGED reg
    /\ RegRest

\* lines 24-29: the loop of get examines the entry at i
RegGetStep(t) ==
    /\ rt.th[t].pc = "body" /\ rt.th[t].op = "get"
    /\ LET i == rt.th[t].i IN
       IF i > Len(reg)
       THEN rt' = [rt EXCEPT !.th[t].pc = "unlock", !.th[t].ret = None]
       ELSE IF reg[i].name = rt.th[t].arg
       THEN rt' = [rt EXCEPT !.th[t].pc = "unlock", !.th[t].ret = Some(reg[i])]
       ELSE rt' = [rt EXCEPT !.th[t].i = i + 1]
    /\ UNCHANGED reg
    /\ RegRest

\* line 35: the iterator of list_names yields the name of the entry at i
RegListStep(t) ==
    /\ rt.th[t].pc = "body" /\ rt.th[t].op = "list_names"
    /\ LET i == rt.th[t].i IN
       IF i > Len(reg)
       THEN rt' = [rt EXCEPT !.th[t].pc = "unlock"]
       ELSE rt' = [rt EXCEPT !.th[t].i = i + 1,
                             !.th[t].ret = Append(@, reg[i].name)]
    /\ UNCHANGED reg
    /\ RegRest

\* the function returns and the guard is dropped
RegUnlock(t) ==
    /\ rt.th[t].pc = "unlock"
    /\ rt' = [rt EXCEPT !.lock = 0, !.th[t] = NoRegThread]
    /\ UNCHANGED reg
    /\ RegRest

NextRegPar ==
    \E t \in RegCallers :
        \/ RegCall(t) \/ RegLock(t) \/ RegPush(t) \/ RegRetainStep(t)
        \/ RegGetStep(t) \/ RegListStep(t) \/ RegUnlock(t)

SpecRegPar == InitRegPar /\ [][NextRegPar]_vars

\* ------------------------------------------------------ download: progress
\* The transfer of one download call, from File::create on: what the
\* progress callback is given, and when.  pg.log is the sequence of events
\* of the call: an emission (the ProgressData handed to the callback), the
\* sending of the request, the rename of the temporary file.  A progress is
\* the fraction <<n, d>>.
\* chunks one response body is streamed in, at most
MaxChunks == 3
ChunkLens == {1, 2, 100}
Totals == {None, Some(0), Some(2), Some(200)}

Zero == <<0, 1>>
One == <<1, 1>>
Emit(progress, status) == [kind |-> "emit", progress |-> progress, status |-> status]
Sent == [kind |-> "send", progress |-> Zero, status |-> ""]
Renamed == [kind |-> "rename", progress |-> Zero, status |-> ""]

\* a progress that is not clamped
ProgressUnclamped(downloaded, total) ==
    IF total.some /\ total.v > 0 THEN <<downloaded, total.v>> ELSE Zero

\* lines 528-533: (downloaded / total_len).clamp(0.0, 1.0) when the total
\* is known and positive, else 0.0
Progress(downloaded, total) ==
    IF total.some /\ total.v > 0
    THEN IF downloaded >= total.v THEN One ELSE <<downloaded, total.v>>
    ELSE Zero

\* line 506: total.map(|t| cmp::max(1, t / 100))
StepBytes(total) ==
    IF total.some THEN Some(IF total.v \div 100 >= 1 THEN total.v \div 100 ELSE 1) ELSE None

\* lines 517-526: whether this chunk makes the callback be called
ShouldEmit(elapsed, downloaded, total, last_reported) ==
    \/ elapsed
    \/ /\ StepBytes(total).some
       /\ \/ downloaded >= last_reported + StepBytes(total).v
          \/ downloaded >= total.v

NoTransfer ==
    [pc |-> "new", cb |-> FALSE, log |-> <<>>, total |-> None, downloaded |-> 0,
     last_reported |-> 0, chunks |-> 0, ret |-> "none"]

PgRest == UNCHANGED <<cdnVars, provVars, obsVars, parVars, dlVars,
                      mf, csvin, reg, rt, lg, rcfg>>

InitPg ==
    /\ ProviderNew("Raw")
    /\ rlog = NoRefresh
    /\ call = NoCall
    /\ memo = NoCall
    /\ CdnIdle /\ ParIdle /\ DlIdle
    /\ mf = <<>> /\ csvin = <<>> /\ reg = <<>> /\ rt = <<>> /\ lg = <<>> /\ rcfg = <<>>
    /\ pg = NoTransfer

PgFails == pg' = [pg EXCEPT !.pc = "done", !.ret = "Err"]

\* lines 481-492: the temporary file is created, the callback is given
\* progress 0 and the request is sent; or File::create fails
PgStart ==
    /\ pg.pc \in {"new", "done"}
    /\ \E cb \in BOOLEAN :
          \/ pg' = [NoTransfer EXCEPT !.pc = "done", !.cb = cb, !.ret = "Err"]
          \/ pg' = [NoTransfer EXCEPT
                      !.pc = "request", !.cb = cb,
                      !.log = (IF cb THEN <<Emit(Zero, "")>> ELSE <<>>) \o <<Sent>>]
    /\ PgRest

\* lines 492-500: the request fails or is answered with an error status
PgRequestFails ==
    /\ pg.pc = "request"
    /\ PgFails
    /\ PgRest

\* lines 502-507: the response, with or without a content length
PgResponse ==
    /\ pg.pc = "request"
    /\ \E total \in Totals : pg' = [pg EXCEPT !.pc = "stream", !.total = total]
    /\ PgRest

\* lines 509-510, 512-514: reading or writing a chunk fails
PgChunkFails ==
    /\ pg.pc = "stream"
    /\ PgFails
    /\ PgRest

\* lines 509-544: a chunk is received and written, the callback is called
\* if due.  elapsed is whether 200 ms have passed since the last emission.
PgChunk ==
    /\ pg.pc = "stream"
    /\ pg.chunks < MaxChunks
    /\ \E len \in ChunkLens, elapsed \in BOOLEAN :
          LET downloaded == pg.downloaded + len
              emit == pg.cb /\ ShouldEmit(elapsed, downloaded, pg.total, pg.last_reported)
          IN pg' = [pg EXCEPT
                      !.downloaded = downloaded,
                      !.chunks = @ + 1,
                      !.log = IF emit
                              THEN Append(@, Emit(Progress(downloaded, pg.total), ""))
                              ELSE @,
                      !.last_reported = IF emit /\ StepBytes(pg.total).some
                                        THEN downloaded ELSE @]
    /\ PgRest

\* lines 547-569: the stream ends; flush and rename, then the callback is
\* given progress 1 "finished"; or the flush or the rename fails
PgFinish ==
    /\ pg.pc = "stream"
    /\ \/ PgFails
       \/ pg' = [pg EXCEPT
                   !.pc = "done", !.ret = "Ok",
                   !.log = @ \o <<Renamed>>
                             \o (IF pg.cb THEN <<Emit(One, "finished")>> ELSE <<>>)]
    /\ PgRest

NextPg ==
    \/ PgStart \/ PgRequestFails \/ PgResponse \/ PgChunkFails \/ PgChunk \/ PgFinish

SpecPg == InitPg /\ [][NextPg]_vars

\* ------------------------------------------------------------------ claims
Stages == {"index", "devmap", "explore"}

\* C1: whenever refresh fails, the provider state after refresh returns is
\* Failed carrying the error description; the provider is never left in
\* Updating once a refresh has returned.
C1_FailedAfterRefreshError ==
    rlog.ret = "Err" => state = Failed(rlog.err)

\* C6: for every CDN variant and every URL that does not start with the
\* canonical raw-content prefix, convert_url returns the URL unchanged.
C6_NonRawUrlUnchanged ==
    (cu_pc = "ret" /\ ~StartsWith(cu_url, RawPrefix)) => cu_out = cu_url

\* C7: the state is Updating from construction until a refresh completes;
\* a refresh has set the state to Updating before any of its requests is
\* in flight; and the state is Ready, with refresh having returned Ok,
\* exactly when the index, device-map and explore fetches of that refresh
\* all succeeded and their results are the stored ones.
C7_ReadyIffAllFetched ==
    /\ state \in {Updating, Ready}
    /\ (rlog.ret = "none") => state = Updating
    /\ (rpc # "idle") <=> (rlog.ret = "pending")
    /\ (rpc # "idle") <=> (rreq # <<>>)
    /\ (rreq # <<>>) => state = Updating
    /\ (state = Ready) <=> (rlog.ret = "Ok")
    /\ (rlog.ret = "Ok") <=> (rlog.stored = Stages)
    /\ (rlog.ret = "Ok") =>
           /\ index = rlog.list
           /\ device_map = rlog.map
           /\ explore = rlog.value

\* a refresh has returned Ok after storing a non-empty index
C7_Witness ==
    /\ state = Ready
    /\ rlog.ret = "Ok"
    /\ index # <<>>
    /\ device_map # 0
    /\ explore # 0

\* C8: every get_page result is a page of the pagination of the current
\* index under the sort rule and limit passed to that call, also after a
\* refresh has replaced the index and when the limit equals the cached
\* page size but the sort rule differs from the one the cache was built with.
C8_PageOfCurrentIndex ==
    call.outcome = "Ok" =>
        \E split \in SplitResults(index, call.limit, call.sort) :
            call.ret = PageResult(split, call.page, call.search, cdn).ret

\* a Name-sorted call found a cache of its own page size built with
\* another sort rule, and returned a full page of a three-entry index
C8_Witness ==
    /\ call.outcome = "Ok"
    /\ call.found = "other sort"
    /\ call.sort = "Name"
    /\ Len(index) = 3
    /\ Len(call.ret) = call.limit

\* the later call repeats the kept one: same page, limit, sort and search
Repeats ==
    /\ Keeps(memo)
    /\ call.outcome = "Ok"
    /\ call.page = memo.page
    /\ call.limit = memo.limit
    /\ call.sort = memo.sort
    /\ call.search = memo.search

\* C9 as stated: for the Name and Time sort rules, two get_page calls with
\* the same page, limit, sort and search configuration and no index change
\* in between return identical lists of entries in identical order,
\* whatever other get_page calls were made between them.
C9_SameCallSameList ==
    Repeats => call.ret = memo.ret

\* C9, amended: for the Name and Time sort rules, two get_page calls with
\* the same page, limit, sort and search configuration, no index change in
\* between and the same CDN selection in effect at both calls return
\* identical lists of entries in identical order, whatever other get_page
\* calls were made between them.
C9_SameCallSameCdnSameList ==
    (Repeats /\ call.cdn = memo.cdn) => call.ret = memo.ret

\* a Name-sorted call repeats a kept call after a call with another sort
\* rule and the same page size rebuilt the cache, and returns entries
C9_Witness ==
    /\ Repeats
    /\ call.cdn = memo.cdn
    /\ call.sort = "Name"
    /\ call.found = "other sort"
    /\ Len(index) = 2
    /\ Len(call.ret) = 1

\* ceil(n / limit), the number of pages chunks(limit) makes of n entries
NumPages(n, limit) == (n + limit - 1) \div limit

\* C10: for every page number greater than or equal to the number of pages
\* of the current pagination, and for any page number when the index is
\* empty, get_page returns an empty list as a successful result.
C10_OutOfRangeIsEmptyOk ==
    (/\ call.outcome # "none"
     /\ \/ index = <<>>
        \/ call.limit >= 1 /\ call.page >= NumPages(Len(index), call.limit))
        => (call.outcome = "Ok" /\ call.ret = <<>>)

\* C4: when get_page calls with different limit or sort values run in
\* parallel with each other and with refresh, every call that has returned
\* served one pagination built for its own limit: it did not fail on a page
\* that was replaced between its range test and its page read, and it
\* returned at most limit entries.
C4_OwnSnapshot ==
    \A t \in Threads :
        gp[t].outcome # "none" =>
            /\ gp[t].outcome = "Ok"
            /\ Len(gp[t].ret) <= gp[t].limit

\* the temporary path of call d is one it has chosen and not yet given up
InFlight(d) == dl[d].pc \in {"create", "send", "chunk", "rename", "cleanup"}

\* C5: any two download calls that run concurrently, two downloads of the
\* same item for the same device included, write to different temporary
\* files.
C5_DistinctTempFiles ==
    \A d, e \in DlCalls :
        (d # e /\ InFlight(d) /\ InFlight(e)) => dl[d].tmp # dl[e].tmp

\* C2: once a download call has returned Ok, the final file exists with
\* the complete content and no temporary file of that call remains; once
\* it has returned an error, the final file is not one that call made and
\* no temporary file of that call remains.
C2_Atomicity ==
    \A d \in DlCalls :
        /\ dl[d].ret = "Ok" =>
              /\ dir[FinalPath] # 0
              /\ inode[dir[FinalPath]] = Body
              /\ dir[dl[d].tmp] # d
        /\ dl[d].ret = "Err" =>
              /\ dir[FinalPath] # d
              /\ dl[d].tmp # NoPath => dir[dl[d].tmp] # d

\* C3: in every reachable state the final file does not exist or holds the
\* complete content of a finished transfer, and no call streams bytes into
\* the final file.
C3_FinalNeverPartial ==
    /\ dir[FinalPath] # 0 => inode[dir[FinalPath]] = Body
    /\ \A d \in DlCalls : dl[d].file # 0 => dl[d].file # dir[FinalPath]

\* the elements of a sequence
Elems(s) == {s[i] : i \in 1..Len(s)}

\* text k occurs in text s
Occurs(k, s) == \E i \in 0..(Len(s) - Len(k)) : SubSeq(s, i + 1, i + Len(k)) = k

\* entry e passes the category set and the keyword of a search
Passes(e, search) ==
    /\ search.category.some => Elems(e.devices) \cap Elems(search.category.v) # {}
    /\ search.filter.some =>
          \/ Occurs(search.filter.v, e.name)
          \/ \E tag \in Elems(e.tags) : Occurs(search.filter.v, tag)

\* the page a call selected: the cache holds the pages the call served from
SelectedPage ==
    IF call.page < Len(splited_index) THEN splited_index[call.page + 1] ELSE <<>>

\* C11: get_page returns exactly the entries of the selected page, in page
\* order, that pass both filters: the device list shares an element with
\* the category set when one is given, and the name or one of the tags
\* contains the keyword, case-sensitively, when one is given.
C11_ExactlyPassingOfPage ==
    call.outcome = "Ok" =>
        LET Pass(e) == Passes(e, call.search)
            want == SelectSeq(SelectedPage, Pass)
        IN /\ Len(call.ret) = Len(want)
           /\ \A i \in 1..Len(want) :
                 call.ret[i].id = want[i].id /\ call.ret[i].name = want[i].name

\* a call with category [d2] returned one of the two entries of its page
\* while an entry of another page passes the same search
C11_Witness ==
    /\ call.outcome = "Ok"
    /\ call.search.category = Some(<<D2>>)
    /\ Len(SelectedPage) = 2
    /\ Len(call.ret) = 1
    /\ \E p \in 1..Len(splited_index) :
          /\ p # call.page + 1
          /\ \E e \in Elems(splited_index[p]) : Passes(e, call.search)

\* the selection of a download that obtained a manifest has returned
Selected == mf.pc = "done" /\ mf.got

\* the entry stored under key k of the manifest's download map
Under(k) == mf.downloads[CHOOSE i \in 1..Len(mf.downloads) : mf.downloads[i][1] = k][2]

\* C12: download takes the entry keyed by the requested device if present,
\* otherwise the entry keyed "default" if present, otherwise the first
\* entry in iteration order; it fails with the missing-entry error if and
\* only if the download map is empty.
C12_EntryFallbackOrder ==
    Selected =>
        LET keys == {mf.downloads[i][1] : i \in 1..Len(mf.downloads)} IN
        /\ (mf.err = "no downloadable artifact") <=> (mf.downloads = <<>>)
        /\ (mf.ret = "Err") <=> (mf.downloads = <<>>)
        /\ mf.device \in keys => mf.entry = Under(mf.device)
        /\ (mf.device \notin keys /\ "default" \in keys) => mf.entry = Under("default")
        /\ (mf.device \notin keys /\ "default" \notin keys /\ keys # {}) =>
              mf.entry = mf.downloads[1][2]

\* the map holds the "default" entry second and not the device: the
\* "default" entry was taken, not the first one
C12_Witness ==
    /\ Selected
    /\ Len(mf.downloads) = 2
    /\ mf.downloads[2][1] = "default"
    /\ mf.downloads[1][1] # mf.device
    /\ mf.downloads[1][2] # mf.downloads[2][2]
    /\ mf.entry = mf.downloads[2][2]

\* C13: manifest.json is requested only after manifest_v2.json answered
\* 404, and the legacy document it brings is returned converted; any other
\* non-success status of manifest_v2.json, a non-success status of
\* manifest.json, a body that does not parse or a failed request ends the
\* fetch with an error and no further request.
C13_FallbackOnlyOn404 ==
    /\ mf.reqs \in {<<>>, <<"manifest_v2.json">>, <<"manifest_v2.json", "manifest.json">>}
    /\ (Len(mf.reqs) = 2) <=> (mf.v2.status = 404)
    /\ (mf.v1 # NoAnswer) => Len(mf.reqs) = 2
    /\ (mf.v2.status = 404 /\ mf.v1.body = "manifest") =>
          /\ mf.got
          /\ mf.downloads \in manifest_v1_to_v2(mf.doc)
    /\ (mf.v2.status \notin {0, 200, 404} \/ mf.v2.body \in {"network", "unparsable"}) =>
          /\ mf.pc = "done" /\ mf.ret = "Err" /\ ~mf.got
          /\ mf.reqs = <<"manifest_v2.json">>
    /\ (mf.v1.status \notin {0, 200} \/ mf.v1.body \in {"network", "unparsable"}) =>
          /\ mf.pc = "done" /\ mf.ret = "Err" /\ ~mf.got
          /\ mf.reqs = <<"manifest_v2.json", "manifest.json">>

\* manifest_v2.json answered 404 and manifest.json brought a legacy
\* document with the legacy key n62, returned under the key xmws3
C13_Witness ==
    /\ mf.v2.status = 404
    /\ mf.v1.body = "manifest"
    /\ mf.got
    /\ \E i \in 1..Len(mf.doc) : mf.doc[i][1] = "n62"
    /\ \E i \in 1..Len(mf.downloads) : mf.downloads[i][1] = "xmws3"

\* the rows of the feed that csv deserializes, in feed order
ValidRows == SelectSeq(csvin.feed, LAMBDA row : row.valid)

\* C14: within one refresh the placeholder rows get ids placeholder_<n>
\* with n strictly increasing in feed order (so pairwise distinct), each
\* placeholder row is retained in the index, and no retained entry keeps
\* the sentinel id.
C14_PlaceholderIdsIncrease ==
    csvin # <<>> =>
        LET P == {i \in 1..Len(ValidRows) : ValidRows[i].id = PlaceholderId} IN
        /\ Len(index) = Len(ValidRows)
        /\ \A i \in P : /\ index[i].id[1] = "placeholder_"
                        /\ index[i].name = ValidRows[i].name
        /\ \A i \in P, j \in P : i < j => index[i].id[2] < index[j].id[2]
        /\ \A i \in 1..Len(index) : index[i].id # PlaceholderId

\* a refresh read two placeholder rows and has completed
C14_Witness ==
    /\ csvin # <<>>
    /\ state = Ready
    /\ Len(ValidRows) = 2
    /\ \A i \in 1..2 : ValidRows[i].id = PlaceholderId
    /\ index[1].id[2] < index[2].id[2]

\* C15: after every refresh the ids of the stored index are pairwise
\* distinct, whatever the feed.
C15_IdsDistinct ==
    \A i \in 1..Len(index), j \in 1..Len(index) : i # j => index[i].id # index[j].id

\* the entries of `before` that are not named `name`, in order
Kept(before, name) == SelectSeq(before, LAMBDA p : p.name # name)

\* C16: the registry is an insertion-ordered list.  register appends, also
\* under a name already registered; unregister(name) removes every entry of
\* that name and leaves the others in their order; get(name) returns the
\* earliest-registered entry of that name, or none; list_names returns all
\* names in registration order, duplicates kept.
C16_InsertionOrderedList ==
    /\ rt.op = "register" => reg = rt.before \o <<rt.arg>>
    /\ rt.op = "unregister" =>
          /\ reg = Kept(rt.before, rt.arg)
          /\ \A i \in 1..Len(reg) : reg[i].name # rt.arg
    /\ rt.op = "get" =>
          /\ reg = rt.before
          /\ rt.ret.some <=> \E i \in 1..Len(reg) : reg[i].name = rt.arg
          /\ rt.ret.some =>
                \E i \in 1..Len(reg) :
                    /\ reg[i] = rt.ret.v
                    /\ reg[i].name = rt.arg
                    /\ \A j \in 1..(i - 1) : reg[j].name # rt.arg
    /\ rt.op = "list_names" =>
          /\ reg = rt.before
          /\ Len(rt.ret) = Len(reg)
          /\ \A i \in 1..Len(reg) : rt.ret[i] = reg[i].name

\* a name is registered a second time while an entry of another name
\* stands between the two
C16_Witness ==
    /\ rt.op = "register"
    /\ Len(reg) = 3
    /\ reg[1].name = reg[3].name
    /\ reg[2].name # reg[1].name

\* the callers inside a body
InBody == {t \in RegCallers : rt.th[t].pc \in {"body", "unlock"}}

\* C17: under every interleaving each registry call takes effect
\* atomically, in the order the calls took the mutex: one call at a time
\* runs its body; every result is the result of the call run whole on the
\* registry of that order; when no call is running the registry is the
\* registry of that order (no registration is lost); and a get or a
\* list_names reads a registry no unregister is half-way through.
C17_CallsAreAtomic ==
    /\ Cardinality(InBody) <= 1
    /\ \A t \in RegCallers :
          /\ rt.th[t].pc = "unlock" =>
                rt.th[t].ret = rt.th[t].expect
          /\ (rt.th[t].pc = "body" /\ rt.th[t].op \in {"get", "list_names"}) =>
                reg = rt.lin
    /\ InBody = {} => reg = rt.lin

\* an unregister is half-way, past one entry with another still to remove,
\* while another caller waits for the mutex to read
C17_Witness ==
    \E t \in RegCallers, u \in RegCallers :
        /\ rt.th[t].pc = "body" /\ rt.th[t].op = "unregister"
        /\ rt.th[t].i > 1
        /\ Len(reg) > Len(rt.lin)
        /\ rt.th[u].pc = "lock" /\ rt.th[u].op \in {"get", "list_names"}

\* a <= b for fractions with positive denominators
FracLeq(a, b) == a[1] * b[2] <= b[1] * a[2]

\* the positions of the emissions in the events of the call
Emissions == {i \in 1..Len(pg.log) : pg.log[i].kind = "emit"}
Finished == {i \in Emissions : pg.log[i].status = "finished"}

\* C18: for a download with a progress callback that reaches the transfer
\* stage, the first emission has progress 0 and precedes the sending of the
\* request; progress values never decrease and lie within [0, 1], and are 0
\* for every intermediate emission when the total size is unknown; progress
\* 1 "finished" is emitted exactly once, after the rename, as the last
\* emission; a failing download never emits "finished".
C18_ProgressEmissions ==
    (pg # <<>> /\ pg.cb /\ pg.log # <<>>) =>
        /\ pg.log[1] = Emit(Zero, "")
        /\ \A i \in 1..Len(pg.log) : pg.log[i].kind = "send" => i > 1
        /\ \A i \in Emissions :
              /\ FracLeq(Zero, pg.log[i].progress)
              /\ FracLeq(pg.log[i].progress, One)
              /\ \A j \in Emissions : i < j => FracLeq(pg.log[i].progress, pg.log[j].progress)
              /\ (~pg.total.some /\ i \notin Finished) => pg.log[i].progress = Zero
        /\ \A i \in Finished :
              /\ pg.log[i].progress = One
              /\ i = Len(pg.log)
              /\ \E j \in 1..(i - 1) : pg.log[j].kind = "rename"
        /\ pg.ret = "Ok" <=> Finished # {}
        /\ pg.ret = "Ok" => Cardinality(Finished) = 1
        /\ pg.ret = "Err" => Finished = {}

\* a transfer of known size emitted a progress strictly between 0 and 1,
\* received more bytes than announced, and finished
C18_Witness ==
    /\ pg # <<>> /\ pg.cb
    /\ pg.ret = "Ok"
    /\ pg.total.some /\ pg.total.v > 0
    /\ pg.downloaded > pg.total.v
    /\ \E i \in Emissions : /\ ~FracLeq(pg.log[i].progress, Zero)
                            /\ ~FracLeq(One, pg.log[i].progress)
    /\ Cardinality(Emissions) >= 4

\* C19: the conversion re-keys the legacy downloads entry by entry: for
\* every key k of the legacy object the result holds, under the key the
\* table assigns to k, the entry converted from k's value, and the result
\* has as many entries as the legacy object.
C19_EntryPerLegacyKey ==
    lg # <<>> /\ lg.pc = "ret" =>
        /\ Len(lg.out) = Len(lg.doc)
        /\ \A i \in 1..Len(lg.doc) :
              LET k == map_download_key_v1_to_v2(lg.doc[i][1]) IN
              /\ k \in MapKeys(lg.out)
              /\ MapGet(lg.out, k) = ConvertEntry(lg.doc[i][2])

\* the variant the "cdn" field of the config names, Direct (Raw) when the
\* field is absent or names none
NamedCdn(cfg) == IF cfg.cdn \in GitHubCdn THEN cfg.cdn ELSE "Raw"

\* the index-source URL refresh requests at a stage
StageUrl(stage) ==
    CASE stage = "index" -> IndexUrl
      [] stage = "devmap" -> DevicesUrl
      [] stage = "explore" -> ExploreUrl

\* C20: refresh selects the CDN the "cdn" field of the config names,
\* whatever other fields the config holds, Direct when the field is absent
\* or unrecognized; the selection is stored before the first fetch and
\* rewrites each of the three URLs the refresh requests.
C20_CfgSelectsCdn ==
    rpc \in Stages =>
        /\ cdn = NamedCdn(rcfg)
        /\ rreq = convert_url(NamedCdn(rcfg), StageUrl(rpc))

\* C21: get_page recomputes the paginated cache exactly when the cached
\* page size differs from the requested limit: a call whose limit equals
\* the cached page size leaves splited_index and splited_limit unchanged
\* and serves its page from the cache it found; a call with another limit
\* stores its limit.
C21_RecomputeIffLimitDiffers ==
    [][(call' # NoCall /\ call'.outcome # "none") =>
          /\ call'.found # "other limit" =>
                /\ splited_index' = splited_index
                /\ splited_limit' = splited_limit
                /\ call'.outcome = "Ok"
                /\ call'.ret = PageResult(splited_index, call'.page, call'.search, cdn).ret
          /\ (call'.found = "other limit" /\ call'.outcome = "Ok") =>
                splited_limit' = call'.limit]_vars

\* the pages one after the other
RECURSIVE Flat(_)
Flat(pages) == IF pages = <<>> THEN <<>> ELSE Head(pages) \o Flat(Tail(pages))

\* t holds the entries of s, each as often as s does
SameEntries(s, t) ==
    /\ Len(s) = Len(t)
    /\ \E p \in Permutations(1..Len(s)) : \A i \in 1..Len(s) : t[i] = s[p[i]]

\* C22: after the paginated cache is recomputed with limit L >= 1 its
\* pages are the consecutive chunks of the sorted index: the pages hold the
\* index entries, each once; every page but the last holds L entries and
\* the last between 1 and L; the page sizes sum to get_total_items(); the
\* pages in a row are the index reversed for Time and in ascending order of
\* name for Name.
C22_PagesAreChunksOfSortedIndex ==
    splited_limit >= 1 =>
        LET all == Flat(splited_index)
            n == Len(splited_index)
        IN /\ SameEntries(index, all)
           /\ Len(all) = get_total_items(index)
           /\ \A p \in 1..n :
                 /\ p < n => Len(splited_index[p]) = splited_limit
                 /\ Len(splited_index[p]) \in 1..splited_limit
           /\ splited_sort = "Time" => all = Reverse(index)
           /\ splited_sort = "Name" =>
                 \A i \in 1..Len(all), j \in 1..Len(all) :
                     i < j => ~StrLess(all[j].name, all[i].name)

\* a Name-sorted cache of two pages, the last one short, of an index that
\* was not in name order
C22_Witness ==
    /\ splited_sort = "Name"
    /\ splited_limit = 2
    /\ Len(index) = 3
    /\ Len(splited_index) = 2
    /\ Len(splited_index[2]) = 1
    /\ Flat(splited_index) # index

\* the URL after its leading canonical prefix
AfterRawPrefix(url) == SubSeq(url, Len(RawPrefix) + 1, Len(url))

\* C23: for a URL that starts with the canonical raw-content prefix,
\* Direct returns the URL unchanged; a path-substitution mirror replaces
\* the leading prefix by its own and keeps the rest as it is, also when
\* the canonical prefix occurs again later; a path-wrapping mirror returns
\* its base followed by the URL without the leading https://.
C23_OneTransformation ==
    (cu_pc = "ret" /\ StartsWith(cu_url, RawPrefix)) =>
        cu_out = CASE cu_cdn = "Raw" -> cu_url
                   [] cu_cdn = "AstroBoxProMirror" ->
                          ProMirrorPrefix \o AfterRawPrefix(cu_url)
                   [] cu_cdn = "AstroBoxProMirrorWaterFlames" ->
                          WaterFlamesPrefix \o AfterRawPrefix(cu_url)
                   [] cu_cdn = "GhFast" -> GhFastBase \o SubSeq(cu_url, 2, Len(cu_url))
                   [] cu_cdn = "GhProxy" -> GhProxyBase \o SubSeq(cu_url, 2, Len(cu_url))

\* C24: a refresh replaces the caches in the order index, device map,
\* explore payload and sets the state to Ready only after all three; when
\* it fails at a step, the caches of the earlier steps keep their new
\* values and the caches of that step and of the later steps keep the
\* values they had before the refresh.
C24_CachesReplacedInOrder ==
    rlog.ret # "none" =>
        /\ "devmap" \in rlog.stored => "index" \in rlog.stored
        /\ "explore" \in rlog.stored => "devmap" \in rlog.stored
        /\ IF "index" \in rlog.stored
           THEN /\ index = rlog.list
                /\ splited_index \in SplitResults(index, RefreshLimit, "Random")
           ELSE /\ index = rlog.before.index
                /\ splited_index = rlog.before.splited_index
                /\ splited_limit = rlog.before.splited_limit
        /\ device_map = IF "devmap" \in rlog.stored THEN rlog.map
                        ELSE rlog.before.device_map
        /\ explore = IF "explore" \in rlog.stored THEN rlog.value
                     ELSE rlog.before.explore
        /\ state = Ready => rlog.stored = Stages

\* a refresh that followed a complete one replaced the index and failed at
\* the device map: the index is new, device map and explore are the old ones
C24_Witness ==
    /\ rlog.ret = "Err"
    /\ rlog.stored = {"index"}
    /\ index # rlog.before.index
    /\ rlog.before.device_map # 0
    /\ rlog.before.explore # 0
    /\ device_map = rlog.before.device_map

\* the ids of a returned list
IdsOf(ret) == {ret[i].id : i \in 1..Len(ret)}

\* C25: with the Random sort rule, an unchanged index and a fixed limit
\* L >= 1, the pages returned by successive unfiltered get_page calls for
\* page 0, page 1, ... hold every index entry exactly once: two successive
\* pages share no entry, and when the index has two pages, page 0 and
\* page 1 together hold all of it.
C25_RandomPagesPartition ==
    (/\ memo.outcome = "Ok" /\ call.outcome = "Ok"
     /\ call.limit = memo.limit
     /\ call.page = memo.page + 1) =>
        /\ IdsOf(memo.ret) \cap IdsOf(call.ret) = {}
        /\ (memo.page = 0 /\ NumPages(Len(index), call.limit) = 2) =>
              IdsOf(memo.ret) \cup IdsOf(call.ret) = {index[i].id : i \in 1..Len(index)}

\* C26: get_page returns a result for every page number and every limit,
\* limit 0 and the first call on a new provider included; it never aborts
\* while chunking the index.
C26_GetPageAlwaysReturns ==
    call.outcome \in {"none", "Ok"}

\* C27: when refresh calls do not overlap, in every state in which the
\* provider state is Ready the index, the device map and the explore
\* payload were all stored by the same refresh, the most recently started
\* one, and that refresh has returned.
C27_ReadyMeansOneRefresh ==
    state = Ready =>
        /\ rpc = "idle"
        /\ rlog.stored = {"index", "devmap", "explore"}
        /\ index = rlog.list
        /\ device_map = rlog.map
        /\ explore = rlog.value

\* Ready after a second complete refresh that replaced all three caches
C27_Witness ==
    /\ state = Ready
    /\ rlog.before.device_map # 0
    /\ rlog.before.explore # 0
    /\ index # rlog.before.index
    /\ device_map # rlog.before.device_map
    /\ explore # rlog.before.explore

\* C28: convert_url is idempotent for every variant and every URL: the
\* conversion of an already converted URL returns it unchanged.
C28_ConvertUrlIdempotent ==
    cu_pc = "ret2" => cu_out = cu_url

====
